---- MODULE Spec2Model ----
(***************************************************************************)
(* A model of lib/Sema/TypeCheckExpr.cpp: the sequence folder              *)
(* (foldSequence), the reference classifier and the type-of-reference      *)
(* resolver, the reference builder and the capture analysis.               *)
(***************************************************************************)
EXTENDS Integers, Sequences, FiniteSets, TLC

(***************************************************************************)
(* Bounds of the model.                                                    *)
(***************************************************************************)
\* The longest operator sequence E0 Op1 E1 ... Opn En that is folded.
MaxOps == 3

(***************************************************************************)
(* Infix attributes and the operator expressions of a sequence.            *)
(***************************************************************************)
InfixData(p, a) == [prec |-> p, assoc |-> a]

\* The result of SourceFile::lookupInfixOperator when no operator is declared.
NoInfixOperatorDecl == [prec |-> -1, assoc |-> "invalid"]

IfPrecedence == 100
AssignPrecedence == 90
CastPrecedence == 95
\* (unsigned char)~0U
UnknownPrecedence == 255

\* The precedences of the declared (general) infix operators of the model:
\* one below, one equal to and one above the cast's precedence.
DeclaredPrecedences == {80, 95, 140}
Associativities == {"left", "right", "none"}

\* The operator expressions the parser can put at an operator position of a
\* sequence.  A DeclRefExpr carries what lookupInfixOperator finds for its
\* name; an ExplicitCastExpr carries whether its force location is valid.
DeclRefExprs ==
    {[kind |-> "DeclRefExpr", decl |-> InfixData(p, a), forced |-> FALSE] :
        p \in DeclaredPrecedences, a \in Associativities}
UnknownExprs ==
    {[kind |-> "DeclRefExpr", decl |-> NoInfixOperatorDecl, forced |-> FALSE]}
PseudoExprs ==
    {[kind |-> "IfExpr", decl |-> NoInfixOperatorDecl, forced |-> FALSE],
     [kind |-> "AssignExpr", decl |-> NoInfixOperatorDecl, forced |-> FALSE]}
    \cup {[kind |-> "ExplicitCastExpr", decl |-> NoInfixOperatorDecl, forced |-> f] :
            f \in BOOLEAN}
OperatorExprs == DeclRefExprs \cup UnknownExprs \cup PseudoExprs

(***************************************************************************)
(* Expression trees.                                                       *)
(***************************************************************************)
Null == [kind |-> "null"]
Leaf(k) == [kind |-> "leaf", idx |-> k]
Node(k, j, l, r) == [kind |-> k, op |-> j, l |-> l, r |-> r]

\* A null Op1: getNextOperator's {nullptr, {}}.
NullOp == 0

VARIABLES
    Elts,       \* the operators of the sequence being folded
    S,          \* the remaining slice: the index of its first operator
    forceLoc,   \* per cast operator, whether its force location is valid
    stack,      \* the activations of the static foldSequence
    retval,     \* the value an activation has just returned
    diags,      \* the diagnostics reported so far, in order
    Result,     \* the result of TypeChecker::foldSequence
    status,     \* "idle", "running", "returned", "assert_failed", "null_deref"
    value,      \* the declaration a reference is resolved or built for
    ctx,        \* the ASTContext: what the standard library provides
    call,       \* the last call of the reference resolver or builder
    parent,     \* the declaration context each closure is written in
    body,       \* per closure, its body's references and closures, in walk order
    captures,   \* per closure, the capture list of its CaptureInfo
    computed,   \* the closures computeCaptures has run on
    hist,       \* the closure computeCaptures last ran on, and whether again
    bottomUp,   \* the closures computed after all the closures nested in them
    apply,      \* the ApplyExpr whose result type takes its arguments' sugar
    sugarCall   \* the last call of substituteInputSugarTypeForResult

foldVars == <<Elts, S, forceLoc, stack, retval, diags, Result, status>>
refVars == <<value, ctx, call>>
capVars == <<parent, body, captures, computed, hist, bottomUp>>
sugarVars == <<apply, sugarCall>>

vars == <<Elts, S, forceLoc, stack, retval, diags, Result, status,
          value, ctx, call, parent, body, captures, computed, hist, bottomUp,
          apply, sugarCall>>

\* No call of the reference resolver or builder has been made.
NoCall == [fn |-> "none"]
\* The state of the sequence folder while no sequence is folded.
FoldIdle ==
    /\ Elts = <<>>
    /\ S = 1
    /\ forceLoc = <<>>
    /\ stack = <<>>
    /\ retval = [kind |-> "novalue"]
    /\ diags = <<>>
    /\ Result = [kind |-> "novalue"]
    /\ status = "unused"
\* The state of the capture analysis while no closure is analysed.
CapIdle ==
    /\ parent = <<>>
    /\ body = <<>>
    /\ captures = <<>>
    /\ computed = {}
    /\ hist = [closure |-> "none", again |-> FALSE]
    /\ bottomUp = {}
\* The state of the reference resolver while the sequence folder runs.
RefIdle ==
    /\ value = [kind |-> "none"]
    /\ ctx = [optionalDecl |-> TRUE, optionalIntrinsics |-> TRUE]
    /\ call = NoCall
\* The state of the sugar propagator while no call expression is looked at.
SugarIdle ==
    /\ apply = [kind |-> "none"]
    /\ sugarCall = NoCall

NoValue == [kind |-> "novalue"]

NumOps == Len(Elts)
SEmpty == S > NumOps

\* getInfixData's result (lines 139-174).
getInfixData(E) ==
    IF E.kind = "IfExpr" THEN InfixData(IfPrecedence, "right")
    ELSE IF E.kind = "AssignExpr" THEN InfixData(AssignPrecedence, "right")
    ELSE IF E.kind = "ExplicitCastExpr" THEN InfixData(CastPrecedence, "none")
    ELSE IF E.decl # NoInfixOperatorDecl THEN E.decl
    ELSE InfixData(UnknownPrecedence, "left")

\* getInfixData's diagnostic (line 171), at operator position j.
getInfixDataDiag(j) ==
    IF Elts[j].kind = "DeclRefExpr" /\ Elts[j].decl = NoInfixOperatorDecl
    THEN <<[kind |-> "unknown_binop", loc |-> j]>>
    ELSE <<>>

\* The loop of lines 261-339 without its cast check (lines 268-274).
isaExplicitCastExpr_never(j) == FALSE

isaExplicitCastExpr(j) == Elts[j].kind = "ExplicitCastExpr"

\* makeBinOp's result (lines 176-222) for the operator at position j.
makeBinOp(j, LHS, RHS) ==
    IF LHS = Null \/ RHS = Null THEN Null
    ELSE IF Elts[j].kind = "IfExpr" THEN Node("IfExpr", j, LHS, RHS)
    ELSE IF Elts[j].kind = "AssignExpr" THEN Node("AssignExpr", j, LHS, RHS)
    ELSE IF Elts[j].kind = "ExplicitCastExpr" THEN
        IF forceLoc[j]
        THEN Node("ForceValueExpr", j, Node("ExplicitCastExpr", j, LHS, RHS), Null)
        ELSE Node("ExplicitCastExpr", j, LHS, RHS)
    ELSE Node("BinaryExpr", j, LHS, RHS)

\* makeBinOp's effect on the cast's force location (line 205).
makeBinOpForceLoc(j, LHS, RHS) ==
    IF LHS # Null /\ RHS # Null /\ Elts[j].kind = "ExplicitCastExpr"
    THEN [forceLoc EXCEPT ![j] = FALSE]
    ELSE forceLoc

\* getNextOperator (lines 243-250) of an activation with floor m.
getNextOperator(m) ==
    IF getInfixData(Elts[S]).prec < m THEN NullOp ELSE S

Top == stack[Len(stack)]
SetTop(f) == [stack EXCEPT ![Len(stack)] = f]
Pop == SubSeq(stack, 1, Len(stack) - 1)
Frame(m, lhs) ==
    [MinPrecedence |-> m, LHS |-> lhs, RHS |-> Null, Op1 |-> NullOp, pc |-> "entry"]

Op1Info == getInfixData(Elts[Top.Op1])
Op2Info == getInfixData(Elts[S])

Running == status = "running" /\ retval = NoValue /\ stack # <<>>
AtLoop == Running /\ Top.pc = "loop"
\* Past the cast check of line 268, with Op2 not below the floor (line 282).
AtCompare ==
    /\ AtLoop /\ ~SEmpty /\ Top.Op1 # NullOp
    /\ ~isaExplicitCastExpr(Top.Op1)
    /\ Op2Info.prec >= Top.MinPrecedence

InitFold ==
    \* E0 Op1 E1 ... Opn En, 1 <= n <= MaxOps, given by its operators: operand
    \* Ek is the leaf k, and the operand after a cast is the cast's own type.
    /\ \E n \in 1..MaxOps : Elts \in [1..n -> OperatorExprs]
    /\ S = 1
    /\ forceLoc = [j \in 1..Len(Elts) |-> Elts[j].forced]
    /\ stack = <<>>
    /\ retval = NoValue
    /\ diags = <<>>
    /\ Result = NoValue
    /\ status = "idle"
    /\ RefIdle
    /\ CapIdle
    /\ SugarIdle

\* TypeChecker::foldSequence, lines 609-616: the call of the static fold.
TypeChecker_foldSequence ==
    /\ status = "idle"
    /\ status' = "running"
    /\ stack' = <<Frame(0, Leaf(0))>>
    /\ UNCHANGED <<Elts, S, forceLoc, retval, diags, Result, refVars, capVars, sugarVars>>

\* TypeChecker::foldSequence, lines 616-618: the static fold has returned.
TypeChecker_foldSequence_return ==
    /\ status = "running" /\ stack = <<>> /\ retval # NoValue
    /\ Result' = retval
    /\ retval' = NoValue
    /\ status' \in IF SEmpty THEN {"returned"} ELSE {"assert_failed", "returned"}
    /\ UNCHANGED <<Elts, S, forceLoc, stack, diags, refVars, capVars, sugarVars>>

\* Lines 253-259: the first operator of an activation.
foldSequence_entry ==
    /\ Running /\ Top.pc = "entry"
    /\ diags' = diags \o getInfixDataDiag(S)
    /\ LET op == getNextOperator(Top.MinPrecedence) IN
        IF op = NullOp
        THEN /\ retval' = Top.LHS
             /\ stack' = Pop
             /\ S' = S
        ELSE /\ stack' = SetTop([Top EXCEPT !.Op1 = op, !.RHS = Leaf(S), !.pc = "loop"])
             /\ S' = S + 1
             /\ retval' = retval
    /\ UNCHANGED <<Elts, forceLoc, Result, status, refVars, capVars, sugarVars>>

\* Lines 268-274: a cast folds at once and the next operator is taken.
foldSequence_cast ==
    /\ AtLoop /\ ~SEmpty /\ Top.Op1 # NullOp
    /\ isaExplicitCastExpr(Top.Op1)
    /\ diags' = diags \o getInfixDataDiag(S)
    /\ forceLoc' = makeBinOpForceLoc(Top.Op1, Top.LHS, Top.RHS)
    /\ stack' = SetTop([Top EXCEPT !.LHS = makeBinOp(Top.Op1, Top.LHS, Top.RHS),
                                   !.Op1 = getNextOperator(Top.MinPrecedence),
                                   !.RHS = Leaf(S)])
    /\ S' = S + 1
    /\ UNCHANGED <<Elts, retval, Result, status, refVars, capVars, sugarVars>>

\* Lines 264, 268 and 342 with a null Op1: the assertion of line 264 (or isa's
\* own) fails in a build with assertions, a null pointer is read in one without.
foldSequence_nullOp ==
    /\ AtLoop /\ Top.Op1 = NullOp
    /\ status' \in {"assert_failed", "null_deref"}
    /\ UNCHANGED <<Elts, S, forceLoc, stack, retval, diags, Result, refVars, capVars, sugarVars>>

\* Line 282 (Op2 is below the floor) or line 261 (the slice is empty), then
\* line 342: fold LHS and RHS and return.
foldSequence_finish ==
    /\ AtLoop /\ Top.Op1 # NullOp
    /\ \/ SEmpty
       \/ /\ ~SEmpty /\ ~isaExplicitCastExpr(Top.Op1)
          /\ Op2Info.prec < Top.MinPrecedence
    /\ diags' = IF SEmpty THEN diags ELSE diags \o getInfixDataDiag(S)
    /\ retval' = makeBinOp(Top.Op1, Top.LHS, Top.RHS)
    /\ forceLoc' = makeBinOpForceLoc(Top.Op1, Top.LHS, Top.RHS)
    /\ stack' = Pop
    /\ UNCHANGED <<Elts, S, Result, status, refVars, capVars, sugarVars>>

\* The test of lines 287-288 had it left associativity out: ">=" for ">".
FoldsImmediately_ignoringAssociativity(i1, i2) == i1.prec >= i2.prec

\* The test of lines 287-288.
FoldsImmediately(i1, i2) ==
    \/ i1.prec > i2.prec
    \/ (i1 = i2 /\ i1.assoc = "left")

\* Lines 287-295: Op1 binds tighter, or equally and to the left.
foldSequence_foldLeft ==
    /\ AtCompare
    /\ FoldsImmediately(Op1Info, Op2Info)
    /\ diags' = diags \o getInfixDataDiag(S) \o getInfixDataDiag(S)
    /\ stack' = SetTop([Top EXCEPT !.LHS = makeBinOp(Top.Op1, Top.LHS, Top.RHS),
                                   !.Op1 = getNextOperator(Top.MinPrecedence),
                                   !.RHS = Leaf(S)])
    /\ S' = S + 1
    /\ UNCHANGED <<Elts, forceLoc, retval, Result, status, refVars, capVars, sugarVars>>

\* Lines 301-304: Op2 binds tighter; fold the right-hand side above Op1.
foldSequence_recurseHigher ==
    /\ AtCompare
    /\ ~FoldsImmediately(Op1Info, Op2Info)
    /\ Op1Info.prec < Op2Info.prec
    /\ diags' = diags \o getInfixDataDiag(S)
    /\ stack' = Append(SetTop([Top EXCEPT !.pc = "call302"]),
                       Frame(Op1Info.prec + 1, Top.RHS))
    /\ UNCHANGED <<Elts, S, forceLoc, retval, Result, status, refVars, capVars, sugarVars>>

\* Lines 310-311: equal and both right-associative; fold the right-hand side
\* at Op1's own precedence.
foldSequence_recurseRight ==
    /\ AtCompare
    /\ ~FoldsImmediately(Op1Info, Op2Info)
    /\ ~(Op1Info.prec < Op2Info.prec)
    /\ Op1Info = Op2Info /\ Op1Info.assoc = "right"
    /\ diags' = diags \o getInfixDataDiag(S)
    /\ stack' = Append(SetTop([Top EXCEPT !.pc = "call311"]),
                       Frame(Op1Info.prec, Top.RHS))
    /\ UNCHANGED <<Elts, S, forceLoc, retval, Result, status, refVars, capVars, sugarVars>>

\* Lines 327-334 had they reported every conflict as mismatched associativity.
ConflictDiag_alwaysIncompatible(j1, j2) == [kind |-> "incompatible_assoc", loc |-> j1]

\* The diagnostic of lines 327-334.
ConflictDiag(j1, j2) ==
    IF getInfixData(Elts[j1]).assoc = "none"
    THEN [kind |-> "non_assoc_adjacent", loc |-> j1]
    ELSE IF getInfixData(Elts[j2]).assoc = "none"
    THEN [kind |-> "non_assoc_adjacent", loc |-> j2]
    ELSE [kind |-> "incompatible_assoc", loc |-> j1]

\* Lines 321-338: mismatched or no associativity; diagnose, bind the first
\* two and start over.
foldSequence_conflict ==
    /\ AtCompare
    /\ ~FoldsImmediately(Op1Info, Op2Info)
    /\ ~(Op1Info.prec < Op2Info.prec)
    /\ ~(Op1Info = Op2Info /\ Op1Info.assoc = "right")
    /\ diags' = diags \o getInfixDataDiag(S) \o <<ConflictDiag(Top.Op1, S)>>
    /\ stack' = Append(SetTop([Top EXCEPT !.pc = "call338"]),
                       Frame(Top.MinPrecedence,
                             makeBinOp(Top.Op1, Top.LHS, Top.RHS)))
    /\ UNCHANGED <<Elts, S, forceLoc, retval, Result, status, refVars, capVars, sugarVars>>

Returned == status = "running" /\ retval # NoValue /\ stack # <<>>

\* Lines 302-303: the recursive result is the new RHS; continue the loop.
foldSequence_resume302 ==
    /\ Returned /\ Top.pc = "call302"
    /\ stack' = SetTop([Top EXCEPT !.RHS = retval, !.pc = "loop"])
    /\ retval' = NoValue
    /\ UNCHANGED <<Elts, S, forceLoc, diags, Result, status, refVars, capVars, sugarVars>>

\* Lines 311-318: fold with the recursive result, then return or start over.
foldSequence_resume311 ==
    /\ Returned /\ Top.pc = "call311"
    /\ forceLoc' = makeBinOpForceLoc(Top.Op1, Top.LHS, retval)
    /\ IF SEmpty
       THEN /\ retval' = makeBinOp(Top.Op1, Top.LHS, retval)
            /\ stack' = Pop
       ELSE /\ retval' = NoValue
            /\ stack' = Append(SetTop([Top EXCEPT !.pc = "call318"]),
                               Frame(Top.MinPrecedence,
                                     makeBinOp(Top.Op1, Top.LHS, retval)))
    /\ UNCHANGED <<Elts, S, diags, Result, status, refVars, capVars, sugarVars>>

\* Lines 318 and 338: return what the restarted fold returned.
foldSequence_resumeTail ==
    /\ Returned /\ Top.pc \in {"call318", "call338"}
    /\ stack' = Pop
    /\ UNCHANGED <<Elts, S, forceLoc, retval, diags, Result, status, refVars, capVars, sugarVars>>

NextFold ==
    \/ TypeChecker_foldSequence
    \/ TypeChecker_foldSequence_return
    \/ foldSequence_entry
    \/ foldSequence_cast
    \/ foldSequence_nullOp
    \/ foldSequence_finish
    \/ foldSequence_foldLeft
    \/ foldSequence_recurseHigher
    \/ foldSequence_recurseRight
    \/ foldSequence_conflict
    \/ foldSequence_resume302
    \/ foldSequence_resume311
    \/ foldSequence_resumeTail

FoldSpec == InitFold /\ [][NextFold]_vars

\* The compiler is single-threaded and synchronous: a fold that can take a
\* step takes it.
FairFoldSpec == FoldSpec /\ WF_vars(NextFold)

(***************************************************************************)
(* Properties of the sequence folder.                                      *)
(***************************************************************************)
Info(j) == getInfixData(Elts[j])
Crashed == status \in {"assert_failed", "null_deref"}
Halted == status = "returned" \/ Crashed

RECURSIVE LeavesOf(_)
LeavesOf(t) ==
    IF t.kind = "leaf" THEN <<t.idx>>
    ELSE IF t.kind \in {"null", "novalue"} THEN <<>>
    ELSE LeavesOf(t.l) \o LeavesOf(t.r)

RECURSIVE OpsOf(_)
OpsOf(t) ==
    IF t.kind \in {"leaf", "null", "novalue"} THEN <<>>
    ELSE IF t.kind = "ForceValueExpr" THEN OpsOf(t.l)
    ELSE OpsOf(t.l) \o <<t.op>> \o OpsOf(t.r)

Range(q) == {q[i] : i \in 1..Len(q)}

\* Every node's left subtree holds only operators that bind tighter than the
\* node's, or equally and to the left; its right subtree only operators that
\* bind tighter, or equally and to the right.
RECURSIVE PrecedenceCorrect(_)
PrecedenceCorrect(t) ==
    IF t.kind \in {"leaf", "null", "novalue"} THEN TRUE
    ELSE IF t.kind = "ForceValueExpr" THEN PrecedenceCorrect(t.l)
    ELSE /\ \A q \in Range(OpsOf(t.l)) :
              \/ Info(q).prec > Info(t.op).prec
              \/ Info(q).prec = Info(t.op).prec /\ Info(q).assoc = "left"
         /\ \A q \in Range(OpsOf(t.r)) :
              \/ Info(q).prec > Info(t.op).prec
              \/ Info(q).prec = Info(t.op).prec /\ Info(q).assoc = "right"
         /\ PrecedenceCorrect(t.l)
         /\ PrecedenceCorrect(t.r)

\* ((E0 Op1 E1) Op2 E2) ... Opn En
RECURSIVE LeftNested(_)
LeftNested(n) ==
    IF n = 0 THEN Leaf(0)
    ELSE Node("BinaryExpr", n, LeftNested(n - 1), Leaf(n))

\* Ek Op (Ek+1 Op (... En))
RECURSIVE RightChain(_, _)
RightChain(k, n) ==
    IF k = n THEN Leaf(n)
    ELSE Node("BinaryExpr", k + 1, Leaf(k), RightChain(k + 1, n))

RECURSIVE Depth(_)
Depth(t) ==
    IF t.kind \in {"leaf", "null", "novalue"} THEN 0
    ELSE LET dl == Depth(t.l)
             dr == Depth(t.r)
         IN  1 + (IF dl > dr THEN dl ELSE dr)

IsDeclared(j) == Elts[j].kind = "DeclRefExpr" /\ Elts[j].decl # NoInfixOperatorDecl

\* Only declared binary operators, none non-associative, and operators of
\* equal precedence share their associativity.
GeneralSequence ==
    /\ \A j \in 1..NumOps : IsDeclared(j) /\ Info(j).assoc # "none"
    /\ \A i, j \in 1..NumOps : Info(i).prec = Info(j).prec => Info(i).assoc = Info(j).assoc

StrictlyDecreasing == \A j \in 1..(NumOps - 1) : Info(j).prec > Info(j + 1).prec
OneRightOperator ==
    \A j \in 1..NumOps : Info(j) = Info(1) /\ Info(1).assoc = "right"

\* C1: a sequence of general binary operators in which operators of equal
\* precedence share a left or right associativity folds, at floor 0, without
\* failing, into the precedence-correct tree: the operands are its leaves in
\* input order, each operator is a node once, left subtrees hold only tighter
\* or equal left-associative operators and right subtrees only tighter or
\* equal right-associative ones.  Strictly decreasing precedences give the
\* left-nested tree, one repeated right-associative operator the right-nested
\* chain of depth n.
C1_PrecedenceCorrectTree ==
    GeneralSequence =>
        /\ ~Crashed
        /\ status = "returned" =>
            /\ LeavesOf(Result) = [k \in 1..(NumOps + 1) |-> k - 1]
            /\ OpsOf(Result) = [k \in 1..NumOps |-> k]
            /\ PrecedenceCorrect(Result)
            /\ StrictlyDecreasing => Result = LeftNested(NumOps)
            /\ OneRightOperator =>
                 Result = RightChain(0, NumOps) /\ Depth(Result) = NumOps

\* A fold of three general operators has returned a tree with an operator on
\* both sides of its root: (E0 Op1 E1) Op2 (E2 Op3 E3).
C1_Witness ==
    /\ GeneralSequence /\ status = "returned" /\ NumOps = 3
    /\ Result.l.kind = "BinaryExpr" /\ Result.r.kind = "BinaryExpr"

\* Every cast node of the tree has exactly its own type operand on its right.
RECURSIVE CastsExact(_)
CastsExact(t) ==
    IF t.kind \in {"leaf", "null", "novalue"} THEN TRUE
    ELSE /\ t.kind = "ExplicitCastExpr" => t.r = Leaf(t.op)
         /\ CastsExact(t.l)
         /\ CastsExact(t.r)

\* E0 as! T Op2 E2, with Op2 (a declared operator or the assignment) below
\* the cast's precedence.
ForcedCastThenLower ==
    /\ NumOps = 2
    /\ Elts[1].kind = "ExplicitCastExpr" /\ Elts[1].forced
    /\ Elts[2].kind = "AssignExpr" \/ IsDeclared(2)
    /\ Info(2).prec < CastPrecedence

\* C2: folding `a as! T op b`, op below the cast's precedence, does not fail
\* and gives op applied to (force-unwrap(cast a as T), b) with the forced
\* marker cleared; and in every tree the fold builds, whatever follows a cast,
\* the cast's right side is exactly its own type operand.
C2_CastBindsOnlyItsType ==
    /\ ForcedCastThenLower =>
        /\ ~Crashed
        /\ status = "returned" =>
            /\ Result = Node(IF Elts[2].kind = "AssignExpr" THEN "AssignExpr"
                                                            ELSE "BinaryExpr",
                             2,
                             Node("ForceValueExpr", 1,
                                  Node("ExplicitCastExpr", 1, Leaf(0), Leaf(1)),
                                  Null),
                             Leaf(2))
            /\ forceLoc[1] = FALSE
    /\ CastsExact(Result)
    /\ CastsExact(retval)
    /\ \A i \in 1..Len(stack) : CastsExact(stack[i].LHS) /\ CastsExact(stack[i].RHS)

\* `a as! T op b` has been folded.
C2_Witness ==
    /\ ForcedCastThenLower /\ status = "returned"
    /\ Result.l.kind = "ForceValueExpr"

HasNonAssocDiag == \E i \in 1..Len(diags) : diags[i].kind = "non_assoc_adjacent"

\* Two adjacent operators of equal precedence, both non-associative.
HasNonAssocPair ==
    \E j \in 1..(NumOps - 1) :
        /\ Info(j).assoc = "none" /\ Info(j + 1).assoc = "none"
        /\ Info(j).prec = Info(j + 1).prec

NoCast == \A j \in 1..NumOps : Elts[j].kind # "ExplicitCastExpr"

C4_FoldReturnsConsumed ==
    /\ ~Crashed
    /\ status = "returned" => SEmpty

\* C13: in every activation of the fold, whatever its floor MinPrecedence, at
\* the head of the loop and at the final fold Op1 is an operator and its
\* precedence is at least the floor, the operator consumed last is not below
\* the floor of any activation still running, and no assertion fails and no
\* null operator is read; also right after a cast has been folded.
C13_Op1AtLeastFloor ==
    /\ \A f \in 1..Len(stack) :
        stack[f].pc = "loop" =>
            /\ stack[f].Op1 # NullOp
            /\ Info(stack[f].Op1).prec >= stack[f].MinPrecedence
            /\ Info(S - 1).prec >= stack[f].MinPrecedence
    /\ ~Crashed

(***************************************************************************)
(* Types, as far as the reference resolver looks at them.                  *)
(***************************************************************************)
NullType == [k |-> "null"]
ErrorType == [k |-> "error"]
Nominal(n) == [k |-> "nominal", name |-> n]
NameAlias(t) == [k |-> "alias", obj |-> t]
LValueType(t) == [k |-> "lvalue", obj |-> t]
InOutType(t) == [k |-> "inout", obj |-> t]
WeakStorageType(t) == [k |-> "weak", obj |-> t]
UnownedStorageType(t) == [k |-> "unowned", obj |-> t]
OptionalType(t) == [k |-> "optional", obj |-> t]
FunctionType(i, r) == [k |-> "func", input |-> i, result |-> r]
TupleType(fs) == [k |-> "tuple", fields |-> fs]

StructTy == Nominal("Struct")
ClassTy == Nominal("Class")

RECURSIVE getCanonicalType(_)
getCanonicalType(t) ==
    IF t.k = "alias" THEN getCanonicalType(t.obj)
    ELSE IF t.k \in {"lvalue", "inout", "weak", "unowned", "optional"}
    THEN [t EXCEPT !.obj = getCanonicalType(t.obj)]
    ELSE IF t.k = "func"
    THEN FunctionType(getCanonicalType(t.input), getCanonicalType(t.result))
    ELSE IF t.k = "tuple"
    THEN TupleType([i \in 1..Len(t.fields) |-> getCanonicalType(t.fields[i])])
    ELSE t

\* TypeBase::getDesugaredType: the sugar of the outermost level removed.
RECURSIVE getDesugaredType(_)
getDesugaredType(t) == IF t.k = "alias" THEN getDesugaredType(t.obj) ELSE t

hasReferenceSemantics(t) == getCanonicalType(t) = ClassTy
isLValueType(t) == getDesugaredType(t).k = "lvalue"

\* The interface type of a declaration's type: archetypes become the generic
\* parameters they stand for.
RECURSIVE InterfaceOf(_)
InterfaceOf(t) ==
    IF t = Nominal("Archetype") THEN Nominal("GenericTypeParam")
    ELSE IF t.k \in {"alias", "lvalue", "inout", "weak", "unowned", "optional"}
    THEN [t EXCEPT !.obj = InterfaceOf(t.obj)]
    ELSE IF t.k = "func" THEN FunctionType(InterfaceOf(t.input), InterfaceOf(t.result))
    ELSE t

(***************************************************************************)
(* Declarations.                                                           *)
(***************************************************************************)
VarDeclTypes ==
    {StructTy, ClassTy, Nominal("Archetype"), NameAlias(StructTy),
     InOutType(StructTy), InOutType(ClassTy), NameAlias(InOutType(StructTy)),
     LValueType(StructTy),
     WeakStorageType(ClassTy), WeakStorageType(NameAlias(ClassTy)),
     UnownedStorageType(ClassTy)}
SubscriptDeclTypes ==
    {FunctionType(StructTy, StructTy), FunctionType(NameAlias(StructTy), ClassTy),
     FunctionType(StructTy, Nominal("Archetype"))}
FuncDeclTypes == {FunctionType(StructTy, ClassTy)}

\* Whether the declaration has a type yet, and whether it is invalid.
CheckStates ==
    {[hasType |-> TRUE, invalid |-> FALSE], [hasType |-> TRUE, invalid |-> TRUE],
     [hasType |-> FALSE, invalid |-> FALSE]}

Decl(kind, t, settable, static, getterMut, setter, cs, proto, direct) ==
    [kind |-> kind, type |-> t, interfaceType |-> InterfaceOf(t),
     settable |-> settable, isStatic |-> static,
     getterMutating |-> getterMut, setter |-> setter,
     hasType |-> cs.hasType, invalid |-> cs.invalid,
     inProtocol |-> proto, useFromContextDirect |-> direct]

\* A variable that has a setter is settable; a stored one may or may not be.
VarDecls ==
    {Decl("VarDecl", t, sb[1], st, FALSE, sb[2], cs, pr, dr) :
        t \in VarDeclTypes,
        sb \in {<<FALSE, "none">>, <<TRUE, "none">>,
                <<TRUE, "mutating">>, <<TRUE, "nonmutating">>},
        st \in BOOLEAN, cs \in CheckStates, pr \in BOOLEAN, dr \in BOOLEAN}
\* A subscript is settable exactly when it has a setter.
SubscriptDecls ==
    {Decl("SubscriptDecl", t, sb[1], FALSE, gm, sb[2], cs, pr, FALSE) :
        t \in SubscriptDeclTypes,
        sb \in {<<FALSE, "none">>, <<TRUE, "mutating">>, <<TRUE, "nonmutating">>},
        gm \in BOOLEAN, cs \in CheckStates, pr \in BOOLEAN}
FuncDecls ==
    {Decl("FuncDecl", t, FALSE, st, FALSE, "none", cs, pr, FALSE) :
        t \in FuncDeclTypes, st \in BOOLEAN, cs \in CheckStates, pr \in BOOLEAN}
ValueDecls == VarDecls \cup SubscriptDecls \cup FuncDecls

\* The types of the base of a member reference; NullType is no base.
BaseTypes ==
    {NullType, StructTy, ClassTy, LValueType(StructTy), LValueType(ClassTy),
     NameAlias(ClassTy)}

(***************************************************************************)
(* The reference classifier and the type-of-reference resolver.            *)
(***************************************************************************)
\* getTypeOfRValue without lines 362-364: an lvalue type is left as it is.
getTypeOfRValue_keepingLValue(v, wantInterfaceType, cx) ==
    LET type == IF wantInterfaceType THEN v.interfaceType ELSE v.type
        canType == getCanonicalType(type)
    IN  IF canType.k = "inout" THEN canType.obj
        ELSE IF canType.k = "weak" THEN
            LET refTy == getDesugaredType(type).obj
            IN  IF ~cx.optionalDecl THEN refTy ELSE OptionalType(refTy)
        ELSE IF canType.k = "unowned" THEN getDesugaredType(type).obj
        ELSE type

\* getTypeOfRValue's result (lines 345-391).
getTypeOfRValue(v, wantInterfaceType, cx) ==
    LET type == IF wantInterfaceType THEN v.interfaceType ELSE v.type
        canType == getCanonicalType(type)
    IN  IF canType.k = "inout" THEN canType.obj
        ELSE IF canType.k = "lvalue" THEN canType.obj
        ELSE IF canType.k = "weak" THEN
            LET refTy == getDesugaredType(type).obj
            IN  IF ~cx.optionalDecl THEN refTy ELSE OptionalType(refTy)
        ELSE IF canType.k = "unowned" THEN getDesugaredType(type).obj
        ELSE type

\* TypeChecker::getOptionalType's diagnostic when Optional is not declared.
getOptionalTypeDiag(cx) ==
    IF ~cx.optionalDecl THEN <<"sugar_type_not_found">> ELSE <<>>

\* requireOptionalIntrinsics had it reported nothing.
requireOptionalIntrinsicsDiag_silent(cx) == <<>>

\* requireOptionalIntrinsics' diagnostic (lines 393-398).
requireOptionalIntrinsicsDiag(cx) ==
    IF cx.optionalIntrinsics THEN <<>> ELSE <<"optional_intrinsics_not_found">>

\* getTypeOfRValue's diagnostics (lines 366-383).
getTypeOfRValueDiags(v, wantInterfaceType, cx) ==
    LET type == IF wantInterfaceType THEN v.interfaceType ELSE v.type
    IN  IF getCanonicalType(type).k \in {"inout", "lvalue"} THEN <<>>
        ELSE IF getCanonicalType(type).k = "weak" THEN
            getOptionalTypeDiag(cx)
                \o (IF cx.optionalDecl THEN requireOptionalIntrinsicsDiag(cx) ELSE <<>>)
        ELSE <<>>

\* Line 421 had it asked only for a setter, mutating or not.
doesVarDeclMemberProduceLValue_anySetter(VD, baseType) ==
    IF ~VD.settable THEN FALSE
    ELSE IF baseType = NullType \/ VD.isStatic THEN TRUE
    ELSE IF hasReferenceSemantics(baseType) \/ isLValueType(baseType) THEN TRUE
    ELSE VD.setter # "none"

\* doesVarDeclMemberProduceLValue (lines 404-422).
doesVarDeclMemberProduceLValue(VD, baseType) ==
    IF ~VD.settable THEN FALSE
    ELSE IF baseType = NullType \/ VD.isStatic THEN TRUE
    ELSE IF hasReferenceSemantics(baseType) \/ isLValueType(baseType) THEN TRUE
    ELSE VD.setter # "none" /\ ~(VD.setter = "mutating")

\* doesSubscriptDeclProduceLValue (lines 426-440).
doesSubscriptDeclProduceLValue(SD, baseType) ==
    IF ~SD.settable THEN FALSE
    ELSE IF hasReferenceSemantics(baseType) \/ isLValueType(baseType) THEN TRUE
    ELSE ~SD.getterMutating /\ ~(SD.setter = "mutating")

\* What the classifier answers for the declaration, whichever kind it is.
ProducesLValue(v, baseType) ==
    IF v.kind = "VarDecl" THEN doesVarDeclMemberProduceLValue(v, baseType)
    ELSE IF v.kind = "SubscriptDecl" THEN doesSubscriptDeclProduceLValue(v, baseType)
    ELSE FALSE

\* typeCheckDecl (line 446): the declaration gets its type, or is found invalid.
typeCheckDecl(v) ==
    IF v.hasType THEN {v}
    ELSE {[v EXCEPT !.hasType = TRUE, !.invalid = b] : b \in BOOLEAN}

\* getUnopenedTypeOfReference's result (lines 448-471) for a checked declaration.
getUnopenedTypeOfReference(v, baseType, wantInterfaceType, cx) ==
    IF v.invalid THEN ErrorType
    ELSE IF v.kind = "VarDecl" /\ doesVarDeclMemberProduceLValue(v, baseType)
    THEN LValueType(getTypeOfRValue(v, wantInterfaceType, cx))
    ELSE LET requestedType == getTypeOfRValue(v, wantInterfaceType, cx)
         IN  IF v.kind = "SubscriptDecl" /\ doesSubscriptDeclProduceLValue(v, baseType)
             THEN LET RFT == getDesugaredType(requestedType)
                  IN  FunctionType(RFT.input, LValueType(RFT.result))
             ELSE requestedType

getUnopenedTypeOfReferenceDiags(v, wantInterfaceType, cx) ==
    IF v.invalid THEN <<>> ELSE getTypeOfRValueDiags(v, wantInterfaceType, cx)

\* A subscript is always referred to through a base (line 427).
BasesFor(v) == IF v.kind = "SubscriptDecl" THEN BaseTypes \ {NullType} ELSE BaseTypes

InitRef ==
    /\ value \in ValueDecls
    /\ ctx \in [optionalDecl : BOOLEAN, optionalIntrinsics : BOOLEAN]
    /\ call = NoCall
    /\ FoldIdle
    /\ CapIdle
    /\ SugarIdle

\* TypeChecker::getUnopenedTypeOfReference (lines 442-472).
TypeChecker_getUnopenedTypeOfReference ==
    \E baseType \in BasesFor(value), wantInterfaceType \in BOOLEAN,
       v \in typeCheckDecl(value) :
        /\ value' = v
        /\ call' = [fn |-> "getUnopenedTypeOfReference",
                    baseType |-> baseType,
                    wantInterfaceType |-> wantInterfaceType,
                    type |-> getUnopenedTypeOfReference(v, baseType,
                                                        wantInterfaceType, ctx),
                    diags |-> getUnopenedTypeOfReferenceDiags(v, wantInterfaceType, ctx)]
        /\ UNCHANGED <<ctx, foldVars, capVars, sugarVars>>

(***************************************************************************)
(* The reference builder.                                                  *)
(***************************************************************************)
\* The most candidates a reference is built from.
MaxCandidates == 2

\* buildCheckedRefExpr's node (lines 476-479) for a checked declaration.
buildCheckedRefExpr(v, Implicit, cx) ==
    [kind |-> "DeclRefExpr", decls |-> <<1>>, implicit |-> Implicit,
     direct |-> v.useFromContextDirect, specialized |-> FALSE,
     type |-> getUnopenedTypeOfReference(v, NullType, FALSE, cx)]

\* buildRefExpr had it typed the direct reference as buildCheckedRefExpr does.
buildRefExpr_typed(Decls, v, Implicit, isSpecialized) ==
    IF Len(Decls) = 1 /\ ~v.inProtocol
    THEN [kind |-> "DeclRefExpr", decls |-> <<Decls[1]>>, implicit |-> Implicit,
          direct |-> v.useFromContextDirect, specialized |-> isSpecialized,
          type |-> getUnopenedTypeOfReference(v, NullType, FALSE, ctx)]
    ELSE [kind |-> "OverloadedDeclRefExpr", decls |-> Decls, implicit |-> Implicit,
          direct |-> FALSE, specialized |-> isSpecialized, type |-> NullType]

\* buildRefExpr's node (lines 487-499); candidate 1 is the declaration v.
buildRefExpr(Decls, v, Implicit, isSpecialized) ==
    IF Len(Decls) = 1 /\ ~v.inProtocol
    THEN [kind |-> "DeclRefExpr", decls |-> <<Decls[1]>>, implicit |-> Implicit,
          direct |-> v.useFromContextDirect, specialized |-> isSpecialized,
          type |-> NullType]
    ELSE [kind |-> "OverloadedDeclRefExpr", decls |-> Decls, implicit |-> Implicit,
          direct |-> FALSE, specialized |-> isSpecialized, type |-> NullType]

\* TypeChecker::buildCheckedRefExpr (lines 474-480); a subscript is never
\* referred to without a base.
TypeChecker_buildCheckedRefExpr ==
    /\ value.kind # "SubscriptDecl"
    /\ \E Implicit \in BOOLEAN, v \in typeCheckDecl(value) :
        /\ value' = v
        /\ call' = [fn |-> "buildCheckedRefExpr",
                    baseType |-> NullType,
                    wantInterfaceType |-> FALSE,
                    type |-> getUnopenedTypeOfReference(v, NullType, FALSE, ctx),
                    diags |-> getUnopenedTypeOfReferenceDiags(v, FALSE, ctx),
                    Decls |-> <<1>>,
                    node |-> buildCheckedRefExpr(v, Implicit, ctx)]
    /\ UNCHANGED <<ctx, foldVars, capVars, sugarVars>>

\* TypeChecker::buildRefExpr (lines 482-500).
TypeChecker_buildRefExpr ==
    /\ \E n \in 1..MaxCandidates, Implicit \in BOOLEAN, isSpecialized \in BOOLEAN :
        call' = [fn |-> "buildRefExpr",
                 baseType |-> NullType,
                 wantInterfaceType |-> FALSE,
                 type |-> NullType,
                 diags |-> <<>>,
                 Decls |-> [i \in 1..n |-> i],
                 node |-> buildRefExpr([i \in 1..n |-> i], value, Implicit,
                                       isSpecialized)]
    /\ UNCHANGED <<value, ctx, foldVars, capVars, sugarVars>>

NextRef ==
    \/ TypeChecker_getUnopenedTypeOfReference
    \/ TypeChecker_buildCheckedRefExpr
    \/ TypeChecker_buildRefExpr

RefSpec == InitRef /\ [][NextRef]_vars

(***************************************************************************)
(* Properties of the reference classifier, resolver and builder.           *)
(***************************************************************************)
Resolved == call.fn = "getUnopenedTypeOfReference"

\* The receiver's type with its lvalue wrapper, if any, removed.
ReceiverObject(b) ==
    IF getDesugaredType(b).k = "lvalue" THEN getCanonicalType(getDesugaredType(b).obj)
    ELSE getCanonicalType(b)
ValueTypeReceiver(b) == b # NullType /\ ReceiverObject(b) = StructTy
ReferenceReceiver(b) == b # NullType /\ ReceiverObject(b) = ClassTy

\* A valid variable, settable in the usage context, has been resolved.
SettableVarResolved ==
    Resolved /\ value.kind = "VarDecl" /\ ~value.invalid /\ value.settable

\* The variable was classified mutable: its usage type is an lvalue.
ClassifiedMutable == call.type.k = "lvalue"

\* C5 as stated: through a value-type receiver a settable variable with a
\* mutating setter is immutable, through a reference receiver it is mutable,
\* whatever its other attributes and whether or not the receiver is an lvalue.
C5_Original ==
    SettableVarResolved =>
        /\ (ValueTypeReceiver(call.baseType) /\ value.setter = "mutating")
              => ~ClassifiedMutable
        /\ ReferenceReceiver(call.baseType) => ClassifiedMutable

\* C5 as amended: a settable, non-static variable with a mutating setter,
\* accessed through a value-type receiver that is not an lvalue, is
\* classified immutable; any settable variable accessed through a receiver
\* with reference semantics is classified mutable, static or not, stored or
\* computed, receiver lvalue-wrapped or not.
C5_ReceiverDecidesMutability ==
    SettableVarResolved =>
        /\ (/\ ValueTypeReceiver(call.baseType) /\ ~isLValueType(call.baseType)
            /\ ~value.isStatic /\ value.setter = "mutating")
              => ~ClassifiedMutable
        /\ ReferenceReceiver(call.baseType) => ClassifiedMutable

\* A non-static variable with a mutating setter has been resolved through a
\* plain struct value and came out as an rvalue.
C5_Witness ==
    /\ SettableVarResolved /\ call.baseType = StructTy
    /\ ~value.isStatic /\ value.setter = "mutating" /\ ~ClassifiedMutable

RECURSIVE NoDoubleWrap(_)
NoDoubleWrap(t) ==
    IF t.k \in {"null", "error", "nominal"} THEN TRUE
    ELSE IF t.k = "func" THEN NoDoubleWrap(t.input) /\ NoDoubleWrap(t.result)
    ELSE /\ (t.k \in {"lvalue", "inout"}) =>
                getDesugaredType(t.obj).k \notin {"lvalue", "inout"}
         /\ NoDoubleWrap(t.obj)

\* C9: the usage type of an invalid declaration is the error type; of a
\* variable it is LValue(base rvalue type) exactly when the variable
\* classifier says mutable and the plain base rvalue type otherwise; of a
\* subscript classified mutable it is the base function type with only its
\* result lvalue-wrapped and its input unchanged; the base rvalue type is
\* never lvalue- or inout-wrapped, so no lvalue is wrapped twice.
C9_LValueIffMutable ==
    Resolved =>
        LET base == getTypeOfRValue(value, call.wantInterfaceType, ctx)
            mutable == ProducesLValue(value, call.baseType)
        IN  /\ value.invalid => call.type = ErrorType
            /\ (~value.invalid /\ value.kind = "VarDecl") =>
                 /\ (call.type.k = "lvalue") <=> mutable
                 /\ mutable => call.type = LValueType(base)
                 /\ ~mutable => call.type = base
            /\ (~value.invalid /\ value.kind = "SubscriptDecl" /\ mutable) =>
                 /\ call.type.k = "func"
                 /\ call.type.input = getDesugaredType(base).input
                 /\ getDesugaredType(call.type.input).k \notin {"lvalue", "inout"}
                 /\ call.type.result = LValueType(getDesugaredType(base).result)
            /\ (~value.invalid /\ value.kind # "VarDecl" /\ ~mutable) =>
                 call.type = base
            /\ getDesugaredType(base).k \notin {"lvalue", "inout"}
            /\ NoDoubleWrap(call.type)

\* A mutable subscript has been resolved: only its result is an lvalue.
C9_Witness ==
    /\ Resolved /\ value.kind = "SubscriptDecl" /\ ~value.invalid
    /\ call.type.k = "func" /\ call.type.result.k = "lvalue"

\* The usage types the resolver can give the declaration, referred to
\* without a base.
UsageTypes ==
    {getUnopenedTypeOfReference(v, NullType, FALSE, ctx) : v \in typeCheckDecl(value)}

\* C10 as stated: one candidate outside a protocol gives a direct reference
\* typed with the resolver's usage type; more candidates, or one protocol
\* requirement, give an untyped overloaded reference with all the candidates.
C10_Original ==
    call.fn = "buildRefExpr" =>
        IF Len(call.Decls) = 1 /\ ~value.inProtocol
        THEN call.node.kind = "DeclRefExpr" /\ call.node.type \in UsageTypes
        ELSE /\ call.node.kind = "OverloadedDeclRefExpr"
             /\ call.node.decls = call.Decls
             /\ call.node.type = NullType

\* C10 as amended: buildRefExpr given one candidate outside a protocol
\* returns a direct reference node to it with no type (only
\* buildCheckedRefExpr sets the node's type, to the resolver's usage type);
\* given more candidates, or one protocol requirement, it returns an
\* overloaded reference with all the candidates and no type.
C10_DirectOrOverloaded ==
    /\ call.fn = "buildRefExpr" =>
        IF Len(call.Decls) = 1 /\ ~value.inProtocol
        THEN /\ call.node.kind = "DeclRefExpr"
             /\ call.node.decls = call.Decls
             /\ call.node.type = NullType
        ELSE /\ call.node.kind = "OverloadedDeclRefExpr"
             /\ call.node.decls = call.Decls
             /\ call.node.type = NullType
    /\ call.fn = "buildCheckedRefExpr" =>
        /\ call.node.kind = "DeclRefExpr"
        /\ call.node.type = call.type
        /\ call.node.type # NullType

\* A direct reference to a single candidate has been built by buildRefExpr.
C10_Witness ==
    /\ call.fn = "buildRefExpr" /\ Len(call.Decls) = 1 /\ ~value.inProtocol
    /\ call.node.kind = "DeclRefExpr"

\* The type the resolver started from: the declaration's type, or its
\* interface type when that was asked for.
DeclaredType == IF call.wantInterfaceType THEN value.interfaceType ELSE value.type

\* The usage type of a valid weak-storage variable has been resolved.
WeakResolved ==
    /\ call.fn \in {"getUnopenedTypeOfReference", "buildCheckedRefExpr"}
    /\ value.kind = "VarDecl" /\ ~value.invalid
    /\ getCanonicalType(DeclaredType).k = "weak"

\* The referent type T of the weak storage type, as it is spelled.
Referent == getDesugaredType(DeclaredType).obj

\* The usage type without the lvalue wrapper of a mutable variable.
UsageRValue == IF call.type.k = "lvalue" THEN call.type.obj ELSE call.type

\* How many times the diagnostic d was reported by the call.
Reported(d) == Cardinality({i \in 1..Len(call.diags) : call.diags[i] = d})

\* C11 as stated: without the optional intrinsics each resolution of a weak
\* declaration reports optional_intrinsics_not_found once and yields the
\* referent type T itself; with them it yields Optional<T> and reports nothing.
C11_Original ==
    WeakResolved =>
        IF ~ctx.optionalIntrinsics
        THEN /\ Reported("optional_intrinsics_not_found") = 1
             /\ UsageRValue = Referent
        ELSE /\ UsageRValue = OptionalType(Referent)
             /\ call.diags = <<>>

\* C11 as amended: the usage type of a weak declaration is never null; when
\* Optional<T> can be formed and the optional intrinsics are missing, the
\* resolution reports optional_intrinsics_not_found once and still yields
\* Optional<T>; when Optional<T> can be formed and the intrinsics are there it
\* yields Optional<T> and reports nothing; the referent type T is yielded only
\* when Optional<T> itself cannot be formed, and then the missing intrinsics
\* are not reported.
C11_WeakYieldsOptional ==
    WeakResolved =>
        /\ UsageRValue # NullType
        /\ (ctx.optionalDecl /\ ~ctx.optionalIntrinsics) =>
             /\ Reported("optional_intrinsics_not_found") = 1
             /\ UsageRValue = OptionalType(Referent)
        /\ (ctx.optionalDecl /\ ctx.optionalIntrinsics) =>
             /\ UsageRValue = OptionalType(Referent)
             /\ call.diags = <<>>
        /\ ~ctx.optionalDecl =>
             /\ UsageRValue = Referent
             /\ Reported("optional_intrinsics_not_found") = 0

\* A weak declaration has been resolved without the optional intrinsics: one
\* diagnostic, and the usage type is Optional<T>.
C11_Witness ==
    /\ WeakResolved /\ ctx.optionalDecl /\ ~ctx.optionalIntrinsics
    /\ UsageRValue = OptionalType(Referent)
    /\ Reported("optional_intrinsics_not_found") = 1

(***************************************************************************)
(* The sugar propagator.                                                   *)
(***************************************************************************)
\* The most leaf types in the argument of a call, its nested tuples included.
MaxLeaves == 3

\* TypeBase::isSpelledLike: the two types are written the same way, sugar
\* included.
isSpelledLike(t, u) == t = u

\* The state substituteInputSugarArgumentType works on through its two
\* reference parameters.
SugarState(resultSugarTy, uniqueSugarTy) ==
    [resultSugarTy |-> resultSugarTy, uniqueSugarTy |-> uniqueSugarTy]

\* Lines 51-63 had a later spelling replaced the one found before it.
substituteInputSugarLeaf_lastWins(argTy, resultTy, st) ==
    IF getCanonicalType(argTy) = resultTy
    THEN [st EXCEPT !.resultSugarTy = argTy]
    ELSE st

\* The branch for an argument that is not a tuple (lines 51-63).
substituteInputSugarLeaf(argTy, resultTy, st) ==
    IF getCanonicalType(argTy) = resultTy
    THEN IF st.resultSugarTy # NullType
         THEN IF isSpelledLike(argTy, st.resultSugarTy) THEN st
              ELSE [st EXCEPT !.uniqueSugarTy = FALSE]
         ELSE [st EXCEPT !.resultSugarTy = argTy]
    ELSE st

\* substituteInputSugarArgumentType (lines 35-65); fields is what is left of
\* the loop over a tuple's fields (lines 44-49), <<>> outside the loop.
RECURSIVE substituteInputSugarArgumentType(_, _, _)
RECURSIVE substituteInputSugarFields(_, _, _)
substituteInputSugarArgumentType(argTy, resultTy, st) ==
    IF ~st.uniqueSugarTy THEN st
    ELSE IF getDesugaredType(argTy).k = "tuple"
    THEN substituteInputSugarFields(getDesugaredType(argTy).fields, resultTy, st)
    ELSE substituteInputSugarLeaf(argTy, resultTy, st)
substituteInputSugarFields(fields, resultTy, st) ==
    IF fields = <<>> THEN st
    ELSE LET st1 == substituteInputSugarArgumentType(Head(fields), resultTy, st)
         IN  IF ~st1.uniqueSugarTy THEN st1
             ELSE substituteInputSugarFields(Tail(fields), resultTy, st1)

\* The type substituteInputSugarTypeForResult leaves the call with
\* (lines 70-89).
substituteInputSugarTypeForResult(E) ==
    IF E.type = NullType \/ getDesugaredType(E.type).k = "error" THEN E.type
    ELSE LET argTy == E.arg
             resultTy == getCanonicalType(getDesugaredType(E.fn).result)
             st == substituteInputSugarArgumentType(argTy, resultTy,
                                                    SugarState(NullType, TRUE))
         IN  IF st.resultSugarTy # NullType /\ st.uniqueSugarTy
             THEN st.resultSugarTy
             ELSE E.type

\* The types of the leaves of an argument: a nominal type spelled three ways,
\* and another one.
LeafTypes ==
    {StructTy, NameAlias(StructTy), NameAlias(NameAlias(StructTy)), ClassTy}

\* The argument types made of the leaves ls, in order: the leaf itself, a
\* tuple, an alias of the tuple, and tuples with a nested tuple at either end.
ArgShapes(ls) ==
    LET n == Len(ls)
    IN  (IF n = 1 THEN {ls[1]} ELSE {})
        \cup {TupleType(ls), NameAlias(TupleType(ls))}
        \cup (IF n >= 1
              THEN {TupleType(<<ls[1], TupleType(SubSeq(ls, 2, n))>>),
                    TupleType(<<TupleType(SubSeq(ls, 1, n - 1)), ls[n]>>),
                    TupleType(<<ls[1], NameAlias(TupleType(SubSeq(ls, 2, n)))>>)}
              ELSE {})
\* The result types of the called function.
ResultTypes ==
    {StructTy, NameAlias(StructTy), ClassTy, TupleType(<<StructTy, ClassTy>>)}

\* The types a type-checked call to a function with result type r can have:
\* the result type, as the function spells it or canonical; no type yet; or
\* the error type.
CallTypes(r) == {NullType, ErrorType, NameAlias(ErrorType), r, getCanonicalType(r)}

ApplyExpr(argTy, resTy, t) ==
    [kind |-> "ApplyExpr", fn |-> FunctionType(argTy, resTy), arg |-> argTy,
     type |-> t]

InitSugar ==
    /\ \E n \in 0..MaxLeaves : \E ls \in [1..n -> LeafTypes] :
        \E a \in ArgShapes(ls), r \in ResultTypes : \E t \in CallTypes(r) :
            apply = ApplyExpr(a, r, t)
    /\ sugarCall = NoCall
    /\ FoldIdle
    /\ RefIdle
    /\ CapIdle

\* TypeChecker::substituteInputSugarTypeForResult (lines 70-89).
TypeChecker_substituteInputSugarTypeForResult ==
    /\ apply' = [apply EXCEPT !.type = substituteInputSugarTypeForResult(apply)]
    /\ sugarCall' = [fn |-> "substituteInputSugarTypeForResult",
                     before |-> apply.type]
    /\ UNCHANGED <<foldVars, refVars, capVars>>

NextSugar == TypeChecker_substituteInputSugarTypeForResult

SugarSpec == InitSugar /\ [][NextSugar]_vars

(***************************************************************************)
(* Properties of the sugar propagator.                                     *)
(***************************************************************************)
SugarCalled == sugarCall.fn = "substituteInputSugarTypeForResult"

\* The leaf arguments of an argument type, nested tuples walked, in order.
RECURSIVE Leaves(_)
RECURSIVE LeavesOfFields(_)
Leaves(t) ==
    IF getDesugaredType(t).k = "tuple" THEN LeavesOfFields(getDesugaredType(t).fields)
    ELSE <<t>>
LeavesOfFields(fs) ==
    IF fs = <<>> THEN <<>> ELSE Leaves(Head(fs)) \o LeavesOfFields(Tail(fs))

\* The canonical result type of the called function.
CanonicalResult == getCanonicalType(getDesugaredType(apply.fn).result)

IsResultLeaf(l) == getCanonicalType(l) = CanonicalResult

\* The leaves whose canonical type is the function's canonical result type.
ResultLeaves == SelectSeq(Leaves(apply.arg), IsResultLeaf)

\* All the result leaves are spelled alike.
OneSpelling == \A i \in 1..Len(ResultLeaves) : ResultLeaves[i] = ResultLeaves[1]

\* C12: substituteInputSugarTypeForResult never changes the canonical type of
\* the call; it leaves a call without a type or with the error type as it
\* is; otherwise it overwrites the call's type exactly when some leaf argument
\* (nested tuples walked) has the function result's canonical type and all
\* such leaves are spelled alike, and the new type is that spelling; when two
\* such leaves are spelled differently the type is left as it was, whatever
\* the other leaves are.
C12_SugarKeepsCanonicalType ==
    SugarCalled =>
        /\ getCanonicalType(apply.type) = getCanonicalType(sugarCall.before)
        /\ IF sugarCall.before = NullType
              \/ getCanonicalType(sugarCall.before) = ErrorType
           THEN apply.type = sugarCall.before
           ELSE IF ResultLeaves # <<>> /\ OneSpelling
           THEN apply.type = ResultLeaves[1]
           ELSE apply.type = sugarCall.before

\* The call's type has been overwritten with the one spelling its two result
\* leaves share, one of them in a nested tuple.
C12_Witness ==
    /\ SugarCalled /\ apply.type # sugarCall.before
    /\ Len(ResultLeaves) >= 2 /\ OneSpelling
    /\ apply.arg.k = "tuple"
    /\ \E i \in 1..Len(apply.arg.fields) : apply.arg.fields[i].k = "tuple"

\* Two result leaves spelled differently, a third one after them: the call's
\* type has been left as it was.
C12_WitnessConflict ==
    /\ SugarCalled /\ apply.type = sugarCall.before
    /\ Len(ResultLeaves) = 3 /\ ResultLeaves[1] # ResultLeaves[2]
    /\ ResultLeaves[3] # apply.type

(***************************************************************************)
(* The capture analysis.                                                   *)
(***************************************************************************)
\* The most name references in the bodies of the closures, taken together.
MaxRefs == 2

\* The declaration contexts: the module, a function F in it, and three
\* closures written in F's body, the second inside the first.
Closures == {"C1", "C2", "C3"}
ParentMaps ==
    {[c \in Closures |->
        IF c = "C1" THEN "F" ELSE IF c = "C2" THEN "C1" ELSE p3] : p3 \in {"C1", "C2"}}

\* DeclContext::getParent.
getParent(dc) ==
    IF dc = "module" THEN "none" ELSE IF dc = "F" THEN "module" ELSE parent[dc]

\* DeclContext::isLocalContext: inside a function or closure body.
isLocalContext(dc) == dc # "module"

RECURSIVE isContextOrChildOf(_, _)
isContextOrChildOf(dc, other) ==
    IF dc = "none" THEN FALSE
    ELSE IF dc = other THEN TRUE
    ELSE isContextOrChildOf(getParent(dc), other)

\* DeclContext::isChildContextOf: other is a strict ancestor of dc.
isChildContextOf(dc, other) == dc # other /\ isContextOrChildOf(dc, other)

\* The declarations: a variable and a function of the module, a local
\* variable and a local function of F, and each closure's parameter.
ValueDecl(n, dc, isVar) == [name |-> n, dc |-> dc, isVarDecl |-> isVar]
OuterDecls ==
    {ValueDecl("gv", "module", TRUE), ValueDecl("gf", "module", FALSE),
     ValueDecl("lv", "F", TRUE), ValueDecl("lf", "F", FALSE)}
ParamDecl(c) == ValueDecl("param", c, TRUE)

\* What name lookup can find from inside closure c, given the nesting pm.
RECURSIVE VisibleParams(_, _)
VisibleParams(c, pm) ==
    IF c \notin Closures THEN {} ELSE {ParamDecl(c)} \cup VisibleParams(pm[c], pm)
VisibleDecls(c, pm) == OuterDecls \cup VisibleParams(c, pm)

DeclRefExpr(d) == [kind |-> "DeclRefExpr", decl |-> d]
ClosureExpr(c) == [kind |-> "ClosureExpr", closure |-> c]

ChildrenOf(c, pm) == {k \in Closures : pm[k] = c}

\* The bodies of closure c with n name references: its references and its
\* child closures (each once) in the order the walk meets them.
BodiesOf(c, pm, n) ==
    LET items == {DeclRefExpr(d) : d \in VisibleDecls(c, pm)}
                    \cup {ClosureExpr(k) : k \in ChildrenOf(c, pm)}
        len == n + Cardinality(ChildrenOf(c, pm))
    IN  {b \in [1..len -> items] :
            \A k \in ChildrenOf(c, pm) :
                Cardinality({i \in 1..len : b[i] = ClosureExpr(k)}) = 1}

\* SetVector::insert.
insert(caps, d) ==
    IF \E i \in 1..Len(caps) : caps[i] = d THEN caps ELSE Append(caps, d)

\* walkToDeclRefExpr without the test of line 659: local references too.
walkToDeclRefExpr_withLocals(caps, d, c) ==
    IF ~d.isVarDecl /\ ~isLocalContext(d.dc) THEN caps
    ELSE insert(caps, d)

\* walkToDeclRefExpr (lines 654-670), walking closure c.
walkToDeclRefExpr(caps, d, c) ==
    IF ~isChildContextOf(c, d.dc) THEN caps
    ELSE IF ~d.isVarDecl /\ ~isLocalContext(d.dc) THEN caps
    ELSE insert(caps, d)

\* Lines 645-650 had the walk passed a child closure by.
walkToSubClosure_skipped(caps, sub, c) == caps

\* Lines 645-650 without the filter of line 647: all the child's captures.
RECURSIVE walkToSubClosure_unfiltered(_, _, _)
walkToSubClosure_unfiltered(caps, sub, c) ==
    IF sub = <<>> THEN caps
    ELSE walkToSubClosure_unfiltered(insert(caps, Head(sub)), Tail(sub), c)

\* Lines 645-650: the captures of a child closure, but for those it takes
\* from the closure c being walked.
RECURSIVE walkToSubClosure(_, _, _)
walkToSubClosure(caps, sub, c) ==
    IF sub = <<>> THEN caps
    ELSE walkToSubClosure(
            IF Head(sub).dc # c THEN insert(caps, Head(sub)) ELSE caps,
            Tail(sub), c)

\* walkToExprPre (lines 638-652) over the body's expressions, in order.
RECURSIVE doWalk(_, _, _)
doWalk(caps, exprs, c) ==
    IF exprs = <<>> THEN caps
    ELSE doWalk(
            IF Head(exprs).kind = "DeclRefExpr"
            THEN walkToDeclRefExpr(caps, Head(exprs).decl, c)
            ELSE walkToSubClosure(caps, captures[Head(exprs).closure], c),
            Tail(exprs), c)

\* computeCaptures had it added what it finds to the list the closure has.
FindCapturedVars_accumulating(c) == captures[c] \o doWalk(<<>>, body[c], c)

\* The capture list computeCaptures gives closure c (lines 676-682): the
\* walk starts from an empty SetVector.
FindCapturedVars(c) == doWalk(<<>>, body[c], c)

InitCap ==
    /\ parent \in ParentMaps
    /\ \E n1 \in 0..MaxRefs :
        \E n2 \in 0..(MaxRefs - n1) :
            \E n3 \in 0..(MaxRefs - n1 - n2) :
                \E b1 \in BodiesOf("C1", parent, n1) :
                    \E b2 \in BodiesOf("C2", parent, n2) :
                        \E b3 \in BodiesOf("C3", parent, n3) :
                            body = [c \in Closures |->
                                      IF c = "C1" THEN b1
                                      ELSE IF c = "C2" THEN b2 ELSE b3]
    /\ captures = [c \in Closures |-> <<>>]
    /\ computed = {}
    /\ hist = [closure |-> "none", again |-> FALSE]
    /\ bottomUp = {}
    /\ FoldIdle
    /\ RefIdle
    /\ SugarIdle

\* The closures written, at any depth, inside closure c.
RECURSIVE NestedClosures(_)
NestedClosures(c) ==
    UNION {{k} \cup NestedClosures(k) : k \in ChildrenOf(c, parent)}

\* TypeChecker::computeCaptures (lines 675-683), on any closure at any time;
\* the caller has kept to the bottom-up order for c when every closure nested
\* in c has been computed, itself bottom-up, before.
TypeChecker_computeCaptures ==
    \E c \in Closures :
        /\ captures' = [captures EXCEPT ![c] = FindCapturedVars(c)]
        /\ computed' = computed \cup {c}
        /\ hist' = [closure |-> c, again |-> (hist.closure = c)]
        /\ bottomUp' = IF NestedClosures(c) \subseteq bottomUp
                       THEN bottomUp \cup {c} ELSE bottomUp \ {c}
        /\ UNCHANGED <<parent, body, foldVars, refVars, sugarVars>>

NextCap == TypeChecker_computeCaptures

CapSpec == InitCap /\ [][NextCap]_vars

(***************************************************************************)
(* Properties of the capture analysis.                                     *)
(***************************************************************************)
\* The declaration contexts closure c is written in, innermost first.
RECURSIVE EnclosingContexts(_)
EnclosingContexts(c) ==
    IF c = "module" THEN {}
    ELSE LET up == IF c = "F" THEN "module" ELSE parent[c]
         IN  {up} \cup EnclosingContexts(up)

\* The closures written, at any depth, inside closure c.
NestedIn(c) == {k \in Closures : c \in EnclosingContexts(k)}

Elems(q) == {q[i] : i \in 1..Len(q)}

\* C6: every declaration in a closure's capture list is declared in a scope
\* that strictly encloses the closure: never in the closure itself, never in
\* a closure nested in it at any depth.
C6_CapturesFromEnclosingScopes ==
    \A c \in Closures :
        \A d \in Elems(captures[c]) :
            /\ d.dc \in EnclosingContexts(c)
            /\ d.dc # c
            /\ d.dc \notin NestedIn(c)

\* C1 contains C2 contains C3; C3 and, through it, C2 have captured C1's
\* parameter and F's local variable, and C1, computed last, only the latter.
C6_Witness ==
    /\ parent["C3"] = "C2" /\ computed = Closures /\ hist.closure = "C1"
    /\ ParamDecl("C1") \in Elems(captures["C3"])
    /\ ParamDecl("C1") \in Elems(captures["C2"])
    /\ captures["C1"] = <<ValueDecl("lv", "F", TRUE)>>

\* The declarations closure c's own body refers to by name.
ReferencedIn(c) ==
    {body[c][i].decl : i \in {j \in 1..Len(body[c]) : body[c][j].kind = "DeclRefExpr"}}

\* C7: for an inner closure written directly in an outer one, both computed:
\* if they, and whatever closure is nested in them, refer only to their own
\* parameters, both capture lists are empty; if the inner closure refers to
\* the outer one's parameter, that parameter is in the inner closure's
\* capture list and not in the outer closure's.
C7_TwoLevels ==
    \A outer, inner \in Closures :
        (parent[inner] = outer /\ {outer, inner} \subseteq computed) =>
            /\ (\A c \in {outer} \cup NestedIn(outer) :
                    /\ ReferencedIn(c) \subseteq {ParamDecl(c)}
                    /\ c \in computed)
                  => captures[inner] = <<>> /\ captures[outer] = <<>>
            /\ ParamDecl(outer) \in ReferencedIn(inner) =>
                  /\ ParamDecl(outer) \in Elems(captures[inner])
                  /\ ParamDecl(outer) \notin Elems(captures[outer])

\* C2 refers to the parameter of C1, which encloses it, and both have been
\* computed, C1 last.
C7_Witness ==
    /\ ParamDecl("C1") \in ReferencedIn("C2")
    /\ {"C1", "C2"} \subseteq computed /\ hist.closure = "C1"
    /\ ParamDecl("C1") \in Elems(captures["C2"])

\* Closures C1 and C2 refer to their own parameters only, C3 to nothing, and
\* all have been computed.
C7_WitnessOwnParameters ==
    /\ ReferencedIn("C1") = {ParamDecl("C1")} /\ ReferencedIn("C2") = {ParamDecl("C2")}
    /\ computed = Closures

NoDuplicates(q) == \A i, j \in 1..Len(q) : q[i] = q[j] => i = j

\* C8: a second computeCaptures on the closure it last ran on, nothing else
\* having run in between, leaves the closure's capture list as it was: the
\* same declarations in the same order, none twice.
C8_Idempotent ==
    [][hist'.again =>
         /\ captures'[hist'.closure] = captures[hist'.closure]
         /\ NoDuplicates(captures'[hist'.closure])]_vars

\* computeCaptures has run twice in a row on a closure with two captures.
C8_Witness ==
    hist.again /\ Len(captures[hist.closure]) >= 2

\* The declarations referred to by name anywhere inside closure c, the
\* closures nested in it at any depth included.
ReferencedAnywhereIn(c) == UNION {ReferencedIn(k) : k \in {c} \cup NestedIn(c)}

\* The textual definition of closure c's captures.
TextualCaptures(c) ==
    {d \in ReferencedAnywhereIn(c) :
        /\ d.dc \in EnclosingContexts(c)
        /\ d.isVarDecl \/ d.dc # "module"}

\* C14: when computeCaptures has run bottom-up for closure c (every closure
\* nested in c computed before c, each of them bottom-up too), c's capture
\* list holds, as a set, exactly the declarations referred to anywhere inside
\* c, nested closures included, whose scope strictly encloses c and that are
\* variables or declared in a local scope.
C14_BottomUpEqualsTextual ==
    \A c \in bottomUp : Elems(captures[c]) = TextualCaptures(c)

\* C1 contains C2 contains C3, computed bottom-up: C1 has captured F's local
\* variable, which only C3 refers to, and not its own parameter, which C2
\* refers to.
C14_Witness ==
    /\ parent["C3"] = "C2" /\ bottomUp = Closures
    /\ ReferencedIn("C1") = {} /\ ReferencedIn("C2") = {ParamDecl("C1")}
    /\ ReferencedIn("C3") = {ValueDecl("lv", "F", TRUE)}
    /\ captures["C1"] = <<ValueDecl("lv", "F", TRUE)>>

\* C1 has been computed before C2, which is nested in it: C1's list misses
\* F's local variable, which C2 has captured from outside C1.
C14_WitnessMissed ==
    /\ "C1" \in computed \ bottomUp /\ "C2" \in bottomUp
    /\ ValueDecl("lv", "F", TRUE) \in Elems(captures["C2"])
    /\ ValueDecl("lv", "F", TRUE) \in TextualCaptures("C1")
    /\ ValueDecl("lv", "F", TRUE) \notin Elems(captures["C1"])

====
